---- MODULE Spec2Model ----
(***************************************************************************)
(* Plan-based access control of the Memberstack boilerplate:               *)
(* lib/auth-config.ts (rule set) and lib/auth-utils.ts (evaluator).        *)
(*                                                                         *)
(* JavaScript values are modelled as follows.                              *)
(*  - an object with optional fields is a record whose DOMAIN holds only   *)
(*    the fields that are present (a field set to undefined is absent);    *)
(*  - an array is a sequence; a string is a string; a route path is the    *)
(*    sequence of its characters, so that String.startsWith is computed;   *)
(*  - null is the record NULL;                                             *)
(*  - obj[key] on an object literal is computed by Get: an own property,   *)
(*    else a property inherited from Object.prototype, else undefined.     *)
(***************************************************************************)
EXTENDS Integers, Sequences, FiniteSets, TLC

VARIABLES config, member, call, result,
          \* MemberstackProvider
          publicKey, memberstack, isLoading, checkAuth, authListener,
          lastAuthChange,
          \* ClientSideProtection
          mounted, pathname, fallbackUrl, accessCheck, rendered, view,
          needsRender, effectPending, timers, cleanup

\* state and environment of MemberstackProvider (member is its third state)
providerVars ==
  <<publicKey, memberstack, isLoading, checkAuth, authListener, lastAuthChange>>

\* state and environment of ClientSideProtection
protectionVars ==
  <<mounted, pathname, fallbackUrl, accessCheck, rendered, view,
    needsRender, effectPending, timers, cleanup>>

vars == <<config, member, call, result, providerVars, protectionVars>>

-----------------------------------------------------------------------------
(* Bounds of the model *)

\* longest request path, in characters
MaxPathLen == 2

\* most plan connections on one member
MaxConns == 2

-----------------------------------------------------------------------------
(* Generic helpers *)

NULL == [null |-> TRUE]

Has(obj, field) == field \in DOMAIN obj

Min(S) == CHOOSE x \in S : \A y \in S : x <= y

SeqsUpTo(S, n) == UNION {[1..k -> S] : k \in 0..n}

Range(s) == {s[i] : i \in 1..Len(s)}

\* Array.prototype.includes
Includes(arr, x) == \E i \in 1..Len(arr) : arr[i] = x

\* Array.prototype.some(x => other.includes(x))
SomeIncluded(arr, other) == \E i \in 1..Len(arr) : Includes(other, arr[i])

\* mutant: the array spread without the Set, repeated elements kept
Dedup_Keep(arr) == arr

\* [...new Set(arr)] / Array.from(set): first occurrences, in order
RECURSIVE Dedup(_)
Dedup(arr) ==
  IF arr = <<>> THEN <<>>
  ELSE LET front == Dedup(SubSeq(arr, 1, Len(arr) - 1))
           last == arr[Len(arr)]
       IN IF Includes(front, last) THEN front ELSE Append(front, last)

\* arr.flatMap(f) for a sequence of sequences
RECURSIVE Flatten(_)
Flatten(arrs) ==
  IF arrs = <<>> THEN <<>> ELSE Head(arrs) \o Flatten(Tail(arrs))

\* String.prototype.startsWith on character sequences
StartsWith(path, prefix) ==
  /\ Len(prefix) <= Len(path)
  /\ SubSeq(path, 1, Len(prefix)) = prefix

\* Names every object literal inherits from Object.prototype
\* ("constructor" stands for toString, valueOf, hasOwnProperty, ...).
ObjectPrototypeKeys == {"constructor"}

\* obj[key] for a Record<string, T> written as an object literal
Get(obj, key) ==
  IF key \in DOMAIN obj THEN [kind |-> "own", value |-> obj[key]]
  ELSE IF key \in ObjectPrototypeKeys THEN [kind |-> "inherited", key |-> key]
  ELSE [kind |-> "undefined"]

\* truthiness of the result of a lookup (arrays and objects are truthy)
Truthy(v) == v.kind # "undefined"

-----------------------------------------------------------------------------
(* Rule set: lib/auth-config.ts *)

\* authConfig.plans; feature lists shortened to the features the gating
\* rules below mention, the routes and name fields are not read by the
\* evaluator
ShippedPlans ==
  [pln_free |->
     [id |-> "pln_free", priority |-> 1,
      features |-> <<"basic-analytics", "profile-management">>,
      permissions |-> <<"read">>],
   pln_premium |->
     [id |-> "pln_premium", priority |-> 2,
      features |-> <<"advanced-analytics", "api-access", "profile-management">>,
      permissions |-> <<"read", "write">>],
   pln_enterprise |->
     [id |-> "pln_enterprise", priority |-> 3,
      features |-> <<"advanced-analytics", "api-access", "white-label",
                     "profile-management">>,
      permissions |-> <<"read", "write", "admin">>]]

\* authConfig.contentGating.features, restricted to the features above
ShippedFeatures ==
  ("basic-analytics" :> <<"pln_free", "pln_premium", "pln_enterprise">>)
  @@ ("advanced-analytics" :> <<"pln_premium", "pln_enterprise">>)

\* characters of a path; "/a" plays the part of "/dashboard"
Chars == {"/", "a"}

Paths == SeqsUpTo(Chars, MaxPathLen)

PathRoot == <<"/">>

PathA == <<"/", "a">>

\* AuthRoute / ContentGatingRule requirements: every optional field is
\* either absent or one of the listed arrays
OptionalField(name, values) ==
  {<<>>} \cup {[f \in {name} |-> v] : v \in values}

\* r1 @@ r2 for records given as functions (possibly empty)
Merge(r1, r2) ==
  [f \in (DOMAIN r1) \cup (DOMAIN r2) |->
     IF f \in DOMAIN r1 THEN r1[f] ELSE r2[f]]

-----------------------------------------------------------------------------
(* Member utilities: lib/auth-utils.ts *)

\* mutant: only the first active connection is read (find for filter)
getActivePlanIds_FirstOnly(m) ==
  IF m = NULL \/ ~Has(m, "planConnections") THEN <<>>
  ELSE LET IsActive(conn) == conn.active
           activeConns == SelectSeq(m.planConnections, IsActive)
       IN IF activeConns = <<>> THEN <<>> ELSE <<activeConns[1].planId>>

\* mutant: the filter on conn.active left out
getActivePlanIds_All(m) ==
  IF m = NULL \/ ~Has(m, "planConnections") THEN <<>>
  ELSE [i \in 1..Len(m.planConnections) |-> m.planConnections[i].planId]

\* getActivePlanIds(member)
getActivePlanIds(m) ==
  IF m = NULL \/ ~Has(m, "planConnections") THEN <<>>
  ELSE LET IsActive(conn) == conn.active
           activeConns == SelectSeq(m.planConnections, IsActive)
       IN [i \in 1..Len(activeConns) |-> activeConns[i].planId]

\* planIds.map(planId => authConfig.plans[planId]).filter(Boolean)
\* Plan ids are the ids Memberstack issues ("pln_..."): none of them is a
\* name inherited from Object.prototype, so a truthy lookup is an own entry.
RECURSIVE ResolvePlans(_, _)
ResolvePlans(cfg, planIds) ==
  IF planIds = <<>> THEN <<>>
  ELSE LET plan == Get(cfg.plans, Head(planIds))
           rest == ResolvePlans(cfg, Tail(planIds))
       IN IF Truthy(plan) THEN <<plan.value>> \o rest ELSE rest

\* mutant: an unstable sort, a plan is put before the plans of its priority
SortsBefore_OrEqual(a, b, order) ==
  IF order = "desc" THEN a.priority >= b.priority ELSE a.priority <= b.priority

\* the comparator is negative for (a, b), so a sorts before b:
\* "desc" is (a, b) => b.priority - a.priority,
\* "asc" is (a, b) => a.priority - b.priority
SortsBefore(a, b, order) ==
  IF order = "desc" THEN a.priority > b.priority ELSE a.priority < b.priority

\* insert plan into a sorted list behind every element it does not sort
\* before (Array.prototype.sort is stable)
RECURSIVE InsertSorted(_, _, _)
InsertSorted(sorted, plan, order) ==
  IF sorted = <<>> THEN <<plan>>
  ELSE IF SortsBefore(plan, Head(sorted), order) THEN <<plan>> \o sorted
  ELSE <<Head(sorted)>> \o InsertSorted(Tail(sorted), plan, order)

\* plans.sort(comparator)
RECURSIVE StableSort(_, _)
StableSort(plans, order) ==
  IF plans = <<>> THEN <<>>
  ELSE InsertSorted(StableSort(SubSeq(plans, 1, Len(plans) - 1), order),
                    plans[Len(plans)], order)

\* getActivePlans(member)
getActivePlans(cfg, m) ==
  StableSort(ResolvePlans(cfg, getActivePlanIds(m)), "desc")

\* mutant: the comparator of the sort reversed
getHighestPriorityPlan_Lowest(cfg, memberPlans) ==
  LET validPlans == StableSort(ResolvePlans(cfg, memberPlans), "asc")
  IN IF validPlans = <<>> THEN NULL ELSE validPlans[1]

\* getHighestPriorityPlan(memberPlans) of lib/auth-config.ts:
\* validPlans[0] || null
getHighestPriorityPlan(cfg, memberPlans) ==
  LET validPlans == StableSort(ResolvePlans(cfg, memberPlans), "desc")
  IN IF validPlans = <<>> THEN NULL ELSE validPlans[1]

\* getPrimaryPlan(member)
getPrimaryPlan(cfg, m) == getHighestPriorityPlan(cfg, getActivePlanIds(m))

\* mutant: every for some (the body of hasAllPlans)
hasPlan_Every(m, planIds) ==
  IF m = NULL THEN FALSE
  ELSE \A i \in 1..Len(planIds) : Includes(getActivePlanIds(m), planIds[i])

\* hasPlan(member, planIds) for planIds an array
hasPlan(m, planIds) ==
  IF m = NULL THEN FALSE
  ELSE SomeIncluded(planIds, getActivePlanIds(m))

\* hasPlan(member, planIds) for the value of a lookup: an own entry is an
\* array; an inherited value is not an array, is wrapped as [planIds] and
\* is never equal to a plan id string
hasPlanOfLookup(m, looked) ==
  IF m = NULL THEN FALSE
  ELSE IF looked.kind = "own" THEN hasPlan(m, looked.value)
  ELSE FALSE

\* mutant: the plans of all connections, the inactive ones included
getMemberFeatures_AllConnections(cfg, m) ==
  LET conns == IF m = NULL \/ ~Has(m, "planConnections") THEN <<>>
               ELSE m.planConnections
      plans == ResolvePlans(cfg, [i \in 1..Len(conns) |-> conns[i].planId])
  IN Dedup(Flatten([i \in 1..Len(plans) |-> plans[i].features]))

\* getMemberFeatures(member)
getMemberFeatures(cfg, m) ==
  LET activePlans == getActivePlans(cfg, m)
  IN Dedup(Flatten([i \in 1..Len(activePlans) |-> activePlans[i].features]))

\* getMemberPermissions(member)
getMemberPermissions(cfg, m) ==
  IF m = NULL THEN <<>>
  ELSE LET memberPermissions ==
             IF Has(m, "permissions") THEN m.permissions ELSE <<>>
           activePlans == getActivePlans(cfg, m)
           planPermissions ==
             Flatten([i \in 1..Len(activePlans) |-> activePlans[i].permissions])
       IN Dedup(memberPermissions \o planPermissions)

-----------------------------------------------------------------------------
(* Access control utilities: lib/auth-utils.ts *)

\* mutant: the receiver and the argument of startsWith exchanged
RouteMatches_Swapped(route, path) ==
  StartsWith(route.path, path) \/ route.path = path

\* route => path.startsWith(route.path) || route.path === path
RouteMatches(route, path) ==
  StartsWith(path, route.path) \/ route.path = path

\* mutant: the last matching entry governs instead of the first
FindProtectedRoute_Last(cfg, path) ==
  LET matching == {i \in 1..Len(cfg.protected) :
                     RouteMatches(cfg.protected[i], path)}
  IN IF matching = {} THEN 0 ELSE CHOOSE i \in matching : \A j \in matching : j <= i

\* authConfig.routes.protected.find(...): index of the first match, 0 if none
FindProtectedRoute(cfg, path) ==
  LET matching == {i \in 1..Len(cfg.protected) :
                     RouteMatches(cfg.protected[i], path)}
  IN IF matching = {} THEN 0 ELSE Min(matching)

\* mutant: the length test forgotten, an empty array counts as a requirement
NonEmptyField_NoLength(rule, field) == Has(rule, field)

\* rule.<field> && rule.<field>.length > 0
NonEmptyField(rule, field) == Has(rule, field) /\ Len(rule[field]) > 0

\* mutant: the denial does not echo the rule's list
EchoField_Drop(rule, field) == <<>>

\* { ..., requiredPlans: rule.requiredPlans }: absent when undefined
EchoField(rule, field) ==
  IF Has(rule, field) THEN [f \in {field} |-> rule[field]] ELSE <<>>

Granted == [hasAccess |-> TRUE]

\* mutant: the permission gate evaluated before the plan gate
hasRouteAccess_PermissionFirst(cfg, m, path) ==
  LET found == FindProtectedRoute(cfg, path)
      protectedRoute == cfg.protected[found]
  IN
  IF found = 0 THEN Granted
  ELSE IF ~(Has(protectedRoute, "allowUnauthenticated")
            /\ protectedRoute.allowUnauthenticated) /\ m = NULL
  THEN [hasAccess |-> FALSE,
        reason |-> "Authentication required",
        suggestedAction |-> "Please log in to access this page"]
  ELSE IF NonEmptyField(protectedRoute, "requiredPermissions")
          /\ ~SomeIncluded(protectedRoute.requiredPermissions,
                           getMemberPermissions(cfg, m))
  THEN [hasAccess |-> FALSE,
        reason |-> "Insufficient permissions",
        requiredPermissions |-> protectedRoute.requiredPermissions,
        suggestedAction |-> "You do not have permission to access this page"]
  ELSE IF NonEmptyField(protectedRoute, "requiredPlans")
          /\ ~hasPlan(m, protectedRoute.requiredPlans)
  THEN [hasAccess |-> FALSE,
        reason |-> "Plan upgrade required",
        requiredPlans |-> protectedRoute.requiredPlans,
        suggestedAction |-> "Please upgrade your plan to access this feature"]
  ELSE Granted

\* hasRouteAccess(member, path)
hasRouteAccess(cfg, m, path) ==
  LET found == FindProtectedRoute(cfg, path)
      protectedRoute == cfg.protected[found]
  IN
  IF found = 0 THEN Granted
  ELSE IF ~(Has(protectedRoute, "allowUnauthenticated")
            /\ protectedRoute.allowUnauthenticated) /\ m = NULL
  THEN [hasAccess |-> FALSE,
        reason |-> "Authentication required",
        suggestedAction |-> "Please log in to access this page"]
  ELSE IF NonEmptyField(protectedRoute, "requiredPlans")
          /\ ~hasPlan(m, protectedRoute.requiredPlans)
  THEN [hasAccess |-> FALSE,
        reason |-> "Plan upgrade required",
        requiredPlans |-> protectedRoute.requiredPlans,
        suggestedAction |-> "Please upgrade your plan to access this feature"]
  ELSE IF NonEmptyField(protectedRoute, "requiredPermissions")
          /\ ~SomeIncluded(protectedRoute.requiredPermissions,
                           getMemberPermissions(cfg, m))
  THEN [hasAccess |-> FALSE,
        reason |-> "Insufficient permissions",
        requiredPermissions |-> protectedRoute.requiredPermissions,
        suggestedAction |-> "You do not have permission to access this page"]
  ELSE Granted

\* mutant: the denial of an unknown feature without its reason
hasFeatureAccess_NoReason(cfg, m, feature) ==
  LET requiredPlans == Get(cfg.features, feature)
      echoed == IF requiredPlans.kind = "own" THEN requiredPlans.value
                ELSE requiredPlans
  IN
  IF ~Truthy(requiredPlans)
  THEN [hasAccess |-> FALSE]
  ELSE IF m = NULL
  THEN [hasAccess |-> FALSE,
        reason |-> "Authentication required",
        requiredPlans |-> echoed,
        suggestedAction |-> "Please log in to access this feature"]
  ELSE IF ~hasPlanOfLookup(m, requiredPlans)
  THEN [hasAccess |-> FALSE,
        reason |-> "Plan upgrade required",
        requiredPlans |-> echoed,
        suggestedAction |-> "Please upgrade your plan to access this feature"]
  ELSE Granted

\* hasFeatureAccess(member, feature)
hasFeatureAccess(cfg, m, feature) ==
  LET requiredPlans == Get(cfg.features, feature)
      echoed == IF requiredPlans.kind = "own" THEN requiredPlans.value
                ELSE requiredPlans
  IN
  IF ~Truthy(requiredPlans)
  THEN [hasAccess |-> FALSE, reason |-> "Unknown feature: " \o feature]
  ELSE IF m = NULL
  THEN [hasAccess |-> FALSE,
        reason |-> "Authentication required",
        requiredPlans |-> echoed,
        suggestedAction |-> "Please log in to access this feature"]
  ELSE IF ~hasPlanOfLookup(m, requiredPlans)
  THEN [hasAccess |-> FALSE,
        reason |-> "Plan upgrade required",
        requiredPlans |-> echoed,
        suggestedAction |-> "Please upgrade your plan to access this feature"]
  ELSE Granted

\* hasComponentAccess(member, componentName)
\* An inherited value (a function of Object.prototype) is a truthy rule
\* that has none of the requirement fields.
hasComponentAccess(cfg, m, componentName) ==
  LET looked == Get(cfg.components, componentName)
      rule == IF looked.kind = "own" THEN looked.value ELSE <<>>
  IN
  IF ~Truthy(looked) THEN Granted
  ELSE IF m = NULL
  THEN Merge([hasAccess |-> FALSE,
              reason |-> "Authentication required",
              suggestedAction |-> "Please log in to access this feature"],
             EchoField(rule, "requiredPlans"))
  ELSE IF NonEmptyField(rule, "requiredPlans")
          /\ ~hasPlan(m, rule.requiredPlans)
  THEN [hasAccess |-> FALSE,
        reason |-> "Plan upgrade required",
        requiredPlans |-> rule.requiredPlans,
        suggestedAction |-> "Please upgrade your plan to access this feature"]
  ELSE IF NonEmptyField(rule, "requiredPermissions")
          /\ ~SomeIncluded(rule.requiredPermissions,
                           getMemberPermissions(cfg, m))
  THEN [hasAccess |-> FALSE,
        reason |-> "Insufficient permissions",
        requiredPermissions |-> rule.requiredPermissions,
        suggestedAction |-> "You do not have permission to access this feature"]
  ELSE IF NonEmptyField(rule, "requiredFeatures")
          /\ ~SomeIncluded(rule.requiredFeatures, getMemberFeatures(cfg, m))
  THEN [hasAccess |-> FALSE,
        reason |-> "Feature not available in your plan",
        suggestedAction |-> "Please upgrade your plan to access this feature"]
  ELSE Granted

-----------------------------------------------------------------------------
(* Plan comparison utilities: lib/auth-utils.ts *)

\* a call that ends with an uncaught TypeError
Threw == [threw |-> "TypeError"]

\* mutant: >= for >, a plan of the same priority counts as an upgrade
canUpgradeToPlan_OrEqual(cfg, m, targetPlanId) ==
  IF m = NULL THEN TRUE
  ELSE LET currentPlan == getPrimaryPlan(cfg, m)
           targetPlan == Get(cfg.plans, targetPlanId)
       IN IF currentPlan = NULL \/ ~Truthy(targetPlan) THEN FALSE
          ELSE IF targetPlan.kind = "inherited" THEN FALSE
          ELSE targetPlan.value.priority >= currentPlan.priority

\* canUpgradeToPlan(member, targetPlanId)
\* An inherited value has no priority: undefined > n is false.
canUpgradeToPlan(cfg, m, targetPlanId) ==
  IF m = NULL THEN TRUE
  ELSE LET currentPlan == getPrimaryPlan(cfg, m)
           targetPlan == Get(cfg.plans, targetPlanId)
       IN IF currentPlan = NULL \/ ~Truthy(targetPlan) THEN FALSE
          ELSE IF targetPlan.kind = "inherited" THEN FALSE
          ELSE targetPlan.value.priority > currentPlan.priority

\* getRecommendedPlanForFeature(feature)
\* An inherited value is the function Object: its length is 1 and it has no
\* map method, so requiredPlans.map(...) raises a TypeError.
getRecommendedPlanForFeature(cfg, feature) ==
  LET requiredPlans == Get(cfg.features, feature)
  IN
  IF ~Truthy(requiredPlans) THEN NULL
  ELSE IF requiredPlans.kind = "inherited" THEN Threw
  ELSE IF Len(requiredPlans.value) = 0 THEN NULL
  ELSE LET plans == StableSort(ResolvePlans(cfg, requiredPlans.value), "asc")
       IN IF plans = <<>> THEN NULL ELSE plans[1]

-----------------------------------------------------------------------------
(* Configuration validation: lib/auth-config.ts *)

\* `Route ${route.path} references non-existent plan: ${planId}`, kept as
\* the template and the two values interpolated into it
RoutePlanError(path, planId) ==
  [template |-> "Route ${route.path} references non-existent plan: ${planId}",
   path |-> path,
   planId |-> planId]

\* `Component ${componentName} references non-existent feature: ${feature}`
ComponentFeatureError(componentName, feature) ==
  [template |->
     "Component ${componentName} references non-existent feature: ${feature}",
   componentName |-> componentName,
   feature |-> feature]

\* `Invalid redirect path: ${path} (must start with /)`
RedirectError(path) ==
  [template |-> "Invalid redirect path: ${path} (must start with /)",
   path |-> path]

\* the keys of contentGating.components and of routes.redirects in the
\* order Object.entries / Object.values visit them (declaration order)
ComponentKeyOrder == <<"AdminPanel", "AnalyticsDashboard">>

RedirectKeyOrder ==
  <<"unauthenticated", "afterLogin", "afterSignup", "afterLogout",
    "insufficientPermissions", "planRequired">>

\* the errors pushed by config.routes.protected.forEach(...)
RoutePlanErrors(cfg) ==
  Flatten([i \in 1..Len(cfg.protected) |->
    LET route == cfg.protected[i]
        Missing(planId) == ~Truthy(Get(cfg.plans, planId))
        missing == IF Has(route, "requiredPlans")
                   THEN SelectSeq(route.requiredPlans, Missing) ELSE <<>>
    IN [j \in 1..Len(missing) |-> RoutePlanError(route.path, missing[j])]])

\* the errors pushed by Object.entries(config.contentGating.components)
\* .forEach(...)
ComponentFeatureErrors(cfg) ==
  LET Declared(componentName) == componentName \in DOMAIN cfg.components
      names == SelectSeq(ComponentKeyOrder, Declared)
  IN Flatten([i \in 1..Len(names) |->
       LET rule == cfg.components[names[i]]
           Missing(feature) == ~Truthy(Get(cfg.features, feature))
           missing == IF Has(rule, "requiredFeatures")
                      THEN SelectSeq(rule.requiredFeatures, Missing) ELSE <<>>
       IN [j \in 1..Len(missing) |->
             ComponentFeatureError(names[i], missing[j])]])

\* the errors pushed by redirectPaths.forEach(...)
RedirectErrors(cfg) ==
  LET Invalid(key) == ~StartsWith(cfg.redirects[key], <<"/">>)
      invalid == SelectSeq(RedirectKeyOrder, Invalid)
  IN [i \in 1..Len(invalid) |-> RedirectError(cfg.redirects[invalid[i]])]

\* validateAuthConfig(config)
validateAuthConfig(cfg) ==
  RoutePlanErrors(cfg) \o ComponentFeatureErrors(cfg) \o RedirectErrors(cfg)

\* isProtectedRoute(path)
isProtectedRoute(cfg, path) ==
  \E i \in 1..Len(cfg.protected) : RouteMatches(cfg.protected[i], path)

\* isPublicRoute(path):
\* routes.public.some(route => path.startsWith(route) || route === path)
isPublicRoute(cfg, path) ==
  \E i \in 1..Len(cfg.public) :
    StartsWith(path, cfg.public[i]) \/ cfg.public[i] = path

\* getRedirectUrl(scenario)
getRedirectUrl(cfg, scenario) == cfg.redirects[scenario]

-----------------------------------------------------------------------------
(* Rule sets and members the evaluator is run on *)

\* requiredPlans arrays of the rules; "pln_ghost" is in no plan map
RulePlanOptions ==
  {<<>>, <<"pln_enterprise">>, <<"pln_ghost">>, <<"pln_free", "pln_enterprise">>}

\* every AuthRoute for one path
RouteRules(path) ==
  {Merge([path |-> path], Merge(plans, Merge(perms, unauth))) :
     plans \in OptionalField("requiredPlans", RulePlanOptions),
     perms \in OptionalField("requiredPermissions", {<<"admin">>}),
     unauth \in OptionalField("allowUnauthenticated", {TRUE, FALSE})}

\* the rules used where two entries overlap
OverlapRules(path) ==
  {r \in RouteRules(path) :
     /\ Has(r, "allowUnauthenticated") /\ ~r.allowUnauthenticated
     /\ Has(r, "requiredPlans")
     /\ r.requiredPlans \in {<<>>, <<"pln_enterprise">>}}

\* authConfig.routes.protected: no entry, one entry, or two entries of which
\* one path is a prefix of the other, in both declaration orders
ProtectedLists ==
  {<<>>}
  \cup {<<r>> : r \in RouteRules(PathA)}
  \cup {<<r1, r2>> : r1 \in OverlapRules(PathRoot), r2 \in OverlapRules(PathA)}
  \cup {<<r2, r1>> : r1 \in OverlapRules(PathRoot), r2 \in OverlapRules(PathA)}

\* every ContentGatingRule for one component
ComponentRules(name) ==
  {Merge([component |-> name], Merge(plans, Merge(perms, feats))) :
     plans \in OptionalField("requiredPlans", RulePlanOptions),
     perms \in OptionalField("requiredPermissions", {<<"admin">>}),
     feats \in OptionalField("requiredFeatures",
                             {<<>>, <<"advanced-analytics">>})}

\* authConfig.contentGating.components, two of the shipped rules
ShippedComponents ==
  [AdminPanel |->
     [component |-> "AdminPanel",
      requiredPlans |-> <<"pln_enterprise">>,
      requiredPermissions |-> <<"admin">>,
      fallbackComponent |-> "AccessDenied"],
   AnalyticsDashboard |->
     [component |-> "AnalyticsDashboard",
      requiredPlans |-> <<"pln_premium", "pln_enterprise">>,
      requiredFeatures |-> <<"advanced-analytics">>,
      fallbackComponent |-> "BasicAnalytics"]]

\* authConfig.routes.protected: the "/dashboard" entry
ShippedProtected ==
  <<[path |-> PathA,
     requiredPlans |-> <<"pln_free", "pln_premium", "pln_enterprise">>,
     allowUnauthenticated |-> FALSE]>>

\* authConfig.routes.redirects: "/login", "/dashboard" and "/pricing" are
\* paths of the form "/a", "/" is itself
ShippedRedirects ==
  [unauthenticated |-> PathA,
   afterLogin |-> PathA,
   afterSignup |-> PathA,
   afterLogout |-> PathRoot,
   insufficientPermissions |-> PathA,
   planRequired |-> PathA]

\* authConfig.routes.public: its first entry is "/"; the other entries
\* ("/login", "/pricing", ...) start with "/" too, so a path starts with
\* one of the entries iff it starts with "/"
ShippedPublic == <<PathRoot>>

\* authConfig
ShippedConfig ==
  [protected |-> ShippedProtected,
   public |-> ShippedPublic,
   redirects |-> ShippedRedirects,
   plans |-> ShippedPlans,
   components |-> ShippedComponents,
   features |-> ShippedFeatures]

\* feature maps: one feature mapped to each plan list, and a map without
\* the feature the shipped AnalyticsDashboard rule requires
FeatureMaps ==
  {"advanced-analytics" :> planIds : planIds \in RulePlanOptions}
  \cup {"basic-analytics" :> <<"pln_free">>}

\* AuthRoute entries with requiredFeatures, as the shipped "/analytics"
\* entry has
FeatureRouteRules(path) ==
  {Merge([path |-> path,
          requiredFeatures |-> features,
          allowUnauthenticated |-> FALSE], plans) :
     features \in {<<"advanced-analytics">>, <<"unknown-feature">>},
     plans \in OptionalField("requiredPlans",
                             {<<"pln_free", "pln_enterprise">>})}

\* plan maps: the shipped priorities, and pln_free given the priority of
\* pln_enterprise (a tie) or a priority above it
PlanMaps ==
  {[ShippedPlans EXCEPT !.pln_free.priority = priority] : priority \in {1, 3, 4}}

\* redirect maps: the shipped one, and one whose planRequired target lacks
\* the leading "/"
RedirectMaps ==
  {ShippedRedirects, [ShippedRedirects EXCEPT !.planRequired = <<"a">>]}

\* routes.public lists: the shipped one, none, and the path of the
\* protected "/dashboard" entry itself
PublicLists == {ShippedPublic, <<>>, <<PathA>>}

-----------------------------------------------------------------------------
(* Configuration generator: lib/memberstack-api *)

\* plans as the Memberstack API returns them (description, features and the
\* dates are not read by the generator); price is the amount, when present
MemberstackPlans ==
  {[id |-> "pln_free", name |-> "Free", isActive |-> TRUE],
   [id |-> "pln_enterprise", name |-> "Enterprise", price |-> 99,
    isActive |-> TRUE],
   [id |-> "pln_ghost", name |-> "Legacy", price |-> 10, isActive |-> FALSE]}

\* the answers of GET /plans: the plans above in every order, none twice
MemberstackPlanLists ==
  {plans \in SeqsUpTo(MemberstackPlans, Cardinality(MemberstackPlans)) :
     \A i, j \in 1..Len(plans) : plans[i] = plans[j] => i = j}

\* plan.price?.amount || 0
PriceAmount(plan) == IF Has(plan, "price") THEN plan.price ELSE 0

\* plan.name.toLowerCase().includes(word), for the names above
NameIncludes(name, word) == name = "Free" /\ word = "free"

\* insert plan behind every plan that is not dearer (the sort is stable)
RECURSIVE InsertByPrice(_, _)
InsertByPrice(sorted, plan) ==
  IF sorted = <<>> THEN <<plan>>
  ELSE IF PriceAmount(plan) < PriceAmount(Head(sorted)) THEN <<plan>> \o sorted
  ELSE <<Head(sorted)>> \o InsertByPrice(Tail(sorted), plan)

\* plans.sort((a, b) => priceA - priceB)
RECURSIVE SortByPrice(_)
SortByPrice(plans) ==
  IF plans = <<>> THEN <<>>
  ELSE InsertByPrice(SortByPrice(SubSeq(plans, 1, Len(plans) - 1)),
                     plans[Len(plans)])

\* generateFeatureSuggestions(plan, priority)
generateFeatureSuggestions(plan, priority) ==
  <<"profile-management">> \o
  (IF \/ priority = 1
      \/ PriceAmount(plan) = 0
      \/ NameIncludes(plan.name, "free")
      \/ NameIncludes(plan.name, "basic")
   THEN <<"basic-support", "core-features", "basic-analytics">>
   ELSE IF \/ priority = 2
           \/ NameIncludes(plan.name, "premium")
           \/ NameIncludes(plan.name, "pro")
   THEN <<"basic-support", "core-features", "basic-analytics",
          "priority-support", "advanced-features", "advanced-analytics",
          "api-access", "export-data", "custom-branding">>
   ELSE <<"basic-support", "core-features", "basic-analytics",
          "priority-support", "advanced-features", "advanced-analytics",
          "api-access", "export-data", "custom-branding",
          "dedicated-support", "enterprise-features", "white-label",
          "sso", "audit-logs">>)

\* generatePermissionSuggestions(plan, priority)
generatePermissionSuggestions(plan, priority) ==
  <<"read">>
  \o (IF priority >= 2 THEN <<"write">> ELSE <<>>)
  \o (IF priority >= 3 THEN <<"admin">> ELSE <<>>)

\* generateRouteSuggestions(plan, priority); the routes are kept as the
\* strings of the source, they are only looked up by name
generateRouteSuggestions(plan, priority) ==
  <<"/dashboard", "/profile", "/settings">>
  \o (IF priority >= 2 THEN <<"/premium", "/analytics", "/api-access">>
      ELSE <<>>)
  \o (IF priority >= 3 THEN <<"/admin", "/enterprise", "/team-management">>
      ELSE <<>>)

\* generateAuthConfigSuggestions(plans)
generateAuthConfigSuggestions(plans) ==
  LET IsActive(plan) == plan.isActive
      sortedPlans == SortByPrice(SelectSeq(plans, IsActive))
  IN [index \in 1..Len(sortedPlans) |->
        LET plan == sortedPlans[index]
            priority == index
        IN [planId |-> plan.id,
            name |-> plan.name,
            suggestedPriority |-> priority,
            suggestedFeatures |-> generateFeatureSuggestions(plan, priority),
            suggestedPermissions |->
              generatePermissionSuggestions(plan, priority),
            suggestedRoutes |-> generateRouteSuggestions(plan, priority)]]

\* suggestions.filter(s => s.<field>.includes(value)).map(s => s.planId)
PlanIdsWhere(suggestions, field, value) ==
  LET Test(s) == Includes(s[field], value)
      selected == SelectSeq(suggestions, Test)
  IN [i \in 1..Len(selected) |-> selected[i].planId]

\* the authConfig that the file written by generateAuthConfigFile() exports,
\* for the plans fetched; Threw when no plan is active. The protected list
\* is suggestions.map(...): one "/dashboard" entry for each suggestion.
generateAuthConfigFile(plans) ==
  LET suggestions == generateAuthConfigSuggestions(plans)
      allFeatures ==
        Dedup(Flatten([i \in 1..Len(suggestions) |->
                         suggestions[i].suggestedFeatures]))
  IN
  IF Len(suggestions) = 0 THEN Threw
  ELSE
  [protected |->
     [i \in 1..Len(suggestions) |->
        [path |-> PathA,
         requiredPlans |->
           IF Includes(suggestions[i].suggestedRoutes, "/dashboard")
           THEN <<suggestions[i].planId>> ELSE <<>>,
         allowUnauthenticated |-> FALSE]],
   public |-> ShippedPublic,
   redirects |-> ShippedRedirects,
   plans |->
     [planId \in {suggestions[i].planId : i \in 1..Len(suggestions)} |->
        LET s == suggestions[CHOOSE i \in 1..Len(suggestions) :
                               suggestions[i].planId = planId]
        IN [id |-> s.planId,
            priority |-> s.suggestedPriority,
            features |-> s.suggestedFeatures,
            permissions |-> s.suggestedPermissions]],
   components |->
     [AnalyticsDashboard |->
        [component |-> "AnalyticsDashboard",
         requiredPlans |-> PlanIdsWhere(suggestions, "suggestedFeatures", "advanced-analytics"),
         requiredFeatures |-> <<"advanced-analytics">>],
      AdminPanel |->
        [component |-> "AdminPanel",
         requiredPlans |-> PlanIdsWhere(suggestions, "suggestedPermissions", "admin"),
         requiredPermissions |-> <<"admin">>]],
   features |->
     [feature \in Range(allFeatures) |->
        PlanIdsWhere(suggestions, "suggestedFeatures", feature)]]

\* the rule sets the generator writes
GeneratedConfigs ==
  {generateAuthConfigFile(plans) : plans \in MemberstackPlanLists} \ {Threw}

\* the rule sets: the shipped one with its protected routes, its component
\* rules or its feature map replaced
Configs ==
  {[ShippedConfig EXCEPT !.protected = list] : list \in ProtectedLists}
  \cup {[ShippedConfig EXCEPT !.components = ("AdminPanel" :> rule)] :
          rule \in ComponentRules("AdminPanel")}
  \cup {[ShippedConfig EXCEPT !.features = map] : map \in FeatureMaps}
  \cup {[ShippedConfig EXCEPT !.protected = <<rule>>] :
          rule \in FeatureRouteRules(PathA)}
  \cup {[ShippedConfig EXCEPT !.plans = plans] : plans \in PlanMaps}
  \cup {[ShippedConfig EXCEPT !.redirects = redirects] :
          redirects \in RedirectMaps}
  \cup {[ShippedConfig EXCEPT !.public = list] : list \in PublicLists}
  \cup GeneratedConfigs

FeatureNames ==
  {"basic-analytics", "advanced-analytics", "unknown-feature", "constructor"}

ComponentNames ==
  {"AdminPanel", "AnalyticsDashboard", "UnknownComponent", "constructor"}

\* targetPlanId of canUpgradeToPlan
TargetPlanIds == {"pln_free", "pln_enterprise", "pln_ghost"}

\* Member.planConnections entries (the id, status and type fields are not
\* read by the evaluator)
Connections ==
  {[planId |-> "pln_free", active |-> TRUE],
   [planId |-> "pln_enterprise", active |-> TRUE],
   [planId |-> "pln_enterprise", active |-> FALSE],
   [planId |-> "pln_ghost", active |-> TRUE]}

\* Member | null: planConnections and permissions may each be missing
Members ==
  {NULL}
  \cup {Merge([id |-> "mem_1"], Merge(conns, perms)) :
          conns \in OptionalField("planConnections",
                                  SeqsUpTo(Connections, MaxConns)),
          perms \in OptionalField("permissions", {<<"admin">>})}

-----------------------------------------------------------------------------
(* The evaluator applied to the current member *)

NoCall == [op |-> "none"]

NoResult == [none |-> TRUE]

\* the value a utility returns to its caller, under the name of the utility
Returned(op, value) == [f \in {op} |-> value]

\* the member utilities a caller may evaluate
MemberUtilities ==
  {"getActivePlanIds", "getActivePlans", "getPrimaryPlan",
   "getMemberFeatures", "getMemberPermissions"}

\* the decision of the evaluator for one call
Evaluate(cfg, m, c) ==
  CASE c.op = "hasRouteAccess" -> hasRouteAccess(cfg, m, c.path)
    [] c.op = "hasFeatureAccess" -> hasFeatureAccess(cfg, m, c.feature)
    [] c.op = "hasComponentAccess" -> hasComponentAccess(cfg, m, c.component)
    [] c.op = "getActivePlanIds" -> Returned(c.op, getActivePlanIds(m))
    [] c.op = "getActivePlans" -> Returned(c.op, getActivePlans(cfg, m))
    [] c.op = "getPrimaryPlan" -> Returned(c.op, getPrimaryPlan(cfg, m))
    [] c.op = "getMemberFeatures" -> Returned(c.op, getMemberFeatures(cfg, m))
    [] c.op = "getMemberPermissions" -> Returned(c.op, getMemberPermissions(cfg, m))
    [] c.op = "canUpgradeToPlan" ->
         Returned(c.op, canUpgradeToPlan(cfg, m, c.targetPlanId))
    [] c.op = "getRecommendedPlanForFeature" ->
         LET plan == getRecommendedPlanForFeature(cfg, c.feature)
         IN IF plan = Threw THEN Threw ELSE Returned(c.op, plan)
    [] c.op = "validateAuthConfig" -> Returned(c.op, validateAuthConfig(cfg))
    [] OTHER -> NoResult

\* no component is mounted: the state of the two components before they are
\* constructed
NoComponents ==
  /\ publicKey = TRUE
  /\ memberstack = NULL
  /\ isLoading = TRUE
  /\ checkAuth = "notStarted"
  /\ authListener = "none"
  /\ lastAuthChange = [delivered |-> FALSE]
  /\ mounted = FALSE
  /\ pathname = PathRoot
  /\ fallbackUrl = PathRoot
  /\ accessCheck = NULL
  /\ rendered = [none |-> TRUE]
  /\ view = "none"
  /\ needsRender = FALSE
  /\ effectPending = FALSE
  /\ timers = {}
  /\ cleanup = 0

Init ==
  /\ config \in Configs
  /\ member \in Members
  /\ call = NoCall
  /\ result = NoResult
  /\ NoComponents

\* Each behaviour follows one consumer of the evaluator (a route guard, a
\* feature gate, a gated component): it evaluates its check for the current
\* member, and evaluates it again whenever the member changes.

\* a caller evaluates hasRouteAccess(member, path)
RouteAccessCheck(path) ==
  /\ call = NoCall
  /\ call' = [op |-> "hasRouteAccess", path |-> path]
  /\ result' = hasRouteAccess(config, member, path)
  /\ UNCHANGED <<config, member, providerVars, protectionVars>>

\* a caller evaluates hasFeatureAccess(member, feature)
FeatureAccessCheck(feature) ==
  /\ call = NoCall
  /\ call' = [op |-> "hasFeatureAccess", feature |-> feature]
  /\ result' = hasFeatureAccess(config, member, feature)
  /\ UNCHANGED <<config, member, providerVars, protectionVars>>

\* a caller evaluates hasComponentAccess(member, componentName)
ComponentAccessCheck(componentName) ==
  /\ call = NoCall
  /\ call' = [op |-> "hasComponentAccess", component |-> componentName]
  /\ result' = hasComponentAccess(config, member, componentName)
  /\ UNCHANGED <<config, member, providerVars, protectionVars>>

\* a caller evaluates one of the member utilities for the current member
MemberUtilityCall(utility) ==
  /\ call = NoCall
  /\ call' = [op |-> utility]
  /\ result' = Evaluate(config, member, call')
  /\ UNCHANGED <<config, member, providerVars, protectionVars>>

\* a caller evaluates canUpgradeToPlan(member, targetPlanId)
CanUpgradeCheck(targetPlanId) ==
  /\ call = NoCall
  /\ call' = [op |-> "canUpgradeToPlan", targetPlanId |-> targetPlanId]
  /\ result' = Evaluate(config, member, call')
  /\ UNCHANGED <<config, member, providerVars, protectionVars>>

\* a caller evaluates getRecommendedPlanForFeature(feature)
RecommendedPlanLookup(feature) ==
  /\ call = NoCall
  /\ call' = [op |-> "getRecommendedPlanForFeature", feature |-> feature]
  /\ result' = Evaluate(config, member, call')
  /\ UNCHANGED <<config, member, providerVars, protectionVars>>

\* the rule set is validated when the module is imported (development)
ValidateConfig ==
  /\ call = NoCall
  /\ call' = [op |-> "validateAuthConfig"]
  /\ result' = Evaluate(config, member, call')
  /\ UNCHANGED <<config, member, providerVars, protectionVars>>

\* planConnections of a member, [] when the field is missing
ConnectionsOf(m) ==
  IF m = NULL \/ ~Has(m, "planConnections") THEN <<>> ELSE m.planConnections

\* seq with x inserted before position i
InsertAt(seq, i, x) ==
  SubSeq(seq, 1, i - 1) \o <<x>> \o SubSeq(seq, i, Len(seq))

\* seq without its element at position i
RemoveAt(seq, i) ==
  SubSeq(seq, 1, i - 1) \o SubSeq(seq, i + 1, Len(seq))

\* m with its planConnections replaced
WithConnections(m, conns) ==
  Merge([planConnections |-> conns], m)

\* the members one auth change leads to: anyone after a login, null after a
\* logout, and a member with one plan connection more or less
NextMembers(m) ==
  IF m = NULL THEN Members \ {NULL}
  ELSE {NULL}
       \cup {WithConnections(m, InsertAt(ConnectionsOf(m), i, conn)) :
               i \in 1..(Len(ConnectionsOf(m)) + 1),
               conn \in IF Len(ConnectionsOf(m)) < MaxConns
                        THEN Connections ELSE {}}
       \cup {WithConnections(m, RemoveAt(ConnectionsOf(m), i)) :
               i \in 1..Len(ConnectionsOf(m))}

\* ms.onAuthChange(newMember => setMember(newMember)); the consumers of the
\* member re-render and evaluate their access check again
AuthChange(newMember) ==
  /\ member' = newMember
  /\ result' = Evaluate(config, newMember, call)
  /\ UNCHANGED <<config, call, providerVars, protectionVars>>

Next ==
  \/ \E path \in Paths : RouteAccessCheck(path)
  \/ \E feature \in FeatureNames : FeatureAccessCheck(feature)
  \/ \E componentName \in ComponentNames : ComponentAccessCheck(componentName)
  \/ \E utility \in MemberUtilities : MemberUtilityCall(utility)
  \/ \E targetPlanId \in TargetPlanIds : CanUpgradeCheck(targetPlanId)
  \/ \E feature \in FeatureNames : RecommendedPlanLookup(feature)
  \/ ValidateConfig
  \/ \E newMember \in NextMembers(member) : AuthChange(newMember)

Spec == Init /\ [][Next]_vars

-----------------------------------------------------------------------------
(* Server-side protection: middleware.ts *)

\* longest pathname of a request to the middleware, in symbols
MaxRequestLen == 3

\* symbols of a request pathname: the characters of Chars, ".", and the
\* words the middleware looks for, each taken as one symbol
RequestChars == Chars \cup {".", "_next", "api", "favicon"}

\* request.nextUrl.pathname: it begins with "/"
RequestPaths ==
  {p \in SeqsUpTo(RequestChars, MaxRequestLen) : Len(p) >= 1 /\ p[1] = "/"}

\* request.cookies: each of the two session cookies is absent, present with
\* an empty value, or present with a value
RequestCookies ==
  {Merge(sid, mid) :
     sid \in OptionalField("_ms-sid", {"", "sid_1"}),
     mid \in OptionalField("_ms-mid", {"", "mem_1"})}

Requests ==
  {[pathname |-> p, cookies |-> c] : p \in RequestPaths, c \in RequestCookies}

\* cookie?.value used as a condition: the cookie is there and its value is
\* not the empty string
CookieValueTruthy(cookies, name) == Has(cookies, name) /\ cookies[name] # ""

\* getAuthFromCookies(request)
getAuthFromCookies(request) ==
  [isAuthenticated |->
     /\ CookieValueTruthy(request.cookies, "_ms-sid")
     /\ CookieValueTruthy(request.cookies, "_ms-mid")]

\* checkBasicRouteAccess(pathname, isAuthenticated)
checkBasicRouteAccess(cfg, path, isAuthenticated) ==
  LET found == FindProtectedRoute(cfg, path)
      protectedRoute == cfg.protected[found]
  IN
  IF found = 0 THEN [hasAccess |-> TRUE]
  ELSE IF ~(Has(protectedRoute, "allowUnauthenticated")
            /\ protectedRoute.allowUnauthenticated) /\ ~isAuthenticated
  THEN [hasAccess |-> FALSE,
        redirectUrl |-> getRedirectUrl(cfg, "unauthenticated"),
        reason |-> "Authentication required"]
  ELSE [hasAccess |-> TRUE]

\* String.prototype.includes for one symbol
IncludesChar(path, char) == \E i \in 1..Len(path) : path[i] = char

\* the test for static files and API routes at the head of middleware
SkipsMiddleware(path) ==
  \/ StartsWith(path, <<"/", "_next", "/">>)
  \/ StartsWith(path, <<"/", "api", "/">>)
  \/ IncludesChar(path, ".")
  \/ StartsWith(path, <<"/", "favicon">>)

\* NextResponse.next()
ResponseNext == [kind |-> "next"]

\* NextResponse.redirect(redirectUrl) with the two search parameters set
ResponseRedirect(url, path, reason) ==
  [kind |-> "redirect", to |-> url, redirect |-> path, reason |-> reason]

\* middleware(request); config.matcher excludes only paths the function
\* itself skips. The catch branch is not reached: neither getAuthFromCookies
\* nor checkBasicRouteAccess throws.
middleware(cfg, request) ==
  LET path == request.pathname
      authInfo == getAuthFromCookies(request)
      basicAccess == checkBasicRouteAccess(cfg, path, authInfo.isAuthenticated)
  IN
  IF SkipsMiddleware(path) THEN ResponseNext
  ELSE IF isPublicRoute(cfg, path) THEN ResponseNext
  ELSE IF isProtectedRoute(cfg, path)
  THEN IF ~basicAccess.hasAccess
       THEN ResponseRedirect(basicAccess.redirectUrl, path, basicAccess.reason)
       ELSE ResponseNext
  ELSE ResponseNext

\* the rule sets the middleware is run with: the shipped one, and the
\* shipped one with other routes.public lists
MiddlewareConfigs ==
  {[ShippedConfig EXCEPT !.public = list] : list \in PublicLists}

MiddlewareInit ==
  /\ config \in MiddlewareConfigs
  /\ member = NULL
  /\ call = NoCall
  /\ result = NoResult
  /\ NoComponents

\* one request reaches the middleware and is answered
MiddlewareRequest(request) ==
  /\ call = NoCall
  /\ call' = [op |-> "middleware", request |-> request]
  /\ result' = middleware(config, request)
  /\ UNCHANGED <<config, member, providerVars, protectionVars>>

MiddlewareNext == \E request \in Requests : MiddlewareRequest(request)

MiddlewareSpec == MiddlewareInit /\ [][MiddlewareNext]_vars

-----------------------------------------------------------------------------
(* Client side: MemberstackProvider and ClientSideProtection *)

\* most redirect timers the browser holds at once
MaxTimers == 2

\* identifiers returned by setTimeout
TimerIds == 1..MaxTimers

\* the value of cleanup when the last effect returned no cleanup function
NoTimer == 0

\* member values the SDK delivers: nobody, a member with the free plan, a
\* member without any plan
FreeMember ==
  [id |-> "mem_1",
   planConnections |-> <<[planId |-> "pln_free", active |-> TRUE]>>]

PlanlessMember == [id |-> "mem_2", planConnections |-> <<>>]

SdkMembers == {NULL, FreeMember, PlanlessMember}

\* usePathname() inside the dashboard layout, which holds the
\* ClientSideProtection: "/dashboard" and a page below it
Pathnames == {PathA, PathA \o <<"a">>}

\* the fallbackUrl prop: "/" (the default, a page outside the dashboard
\* layout) or the empty string
FallbackUrls == {PathRoot, <<>>}

\* the instance memberstackDOM.init returns
MemberstackInstance == [sdk |-> "memberstack"]

\* getMemberstack() called in the browser: null without the public key
getMemberstack(key) == IF key THEN MemberstackInstance ELSE NULL

\* how ms.getCurrentMember() settles
CheckAuthOutcomes ==
  {[status |-> "resolved", data |-> m] : m \in SdkMembers}
  \cup {[status |-> "rejected"]}

\* mutant: isLoading cleared at the end of the try block, not in finally
checkAuth_NoFinally(outcome) ==
  IF outcome.status = "resolved"
  THEN [member |-> outcome.data, isLoading |-> FALSE]
  ELSE [member |-> NULL, isLoading |-> TRUE]

\* checkAuth after its await: the state it sets in try / catch / finally
checkAuth_Settled(outcome) ==
  IF outcome.status = "resolved"
  THEN [member |-> outcome.data, isLoading |-> FALSE]
  ELSE [member |-> NULL, isLoading |-> FALSE]

\* a state update of the provider re-renders the tree below it
RenderScheduled == needsRender' = mounted

\* the state before anything has been rendered / before any timer deps
NotRendered == [none |-> TRUE]

AppInit ==
  /\ config = ShippedConfig
  /\ member = NULL
  /\ call = NoCall
  /\ result = NoResult
  /\ publicKey \in BOOLEAN
  /\ memberstack = NULL
  /\ isLoading = TRUE
  /\ checkAuth = "notStarted"
  /\ authListener = "none"
  /\ lastAuthChange = [delivered |-> FALSE]
  /\ mounted = FALSE
  /\ pathname = PathRoot
  /\ fallbackUrl \in FallbackUrls
  /\ accessCheck = NULL
  /\ rendered = NotRendered
  /\ view = "none"
  /\ needsRender = FALSE
  /\ effectPending = FALSE
  /\ timers = {}
  /\ cleanup = NoTimer

\* MemberstackProvider's useEffect(..., []), run once after it has mounted:
\* without an SDK instance it clears isLoading and returns; otherwise it
\* stores the instance, starts checkAuth() (which runs up to its await) and
\* subscribes the auth-change listener
ProviderEffect ==
  /\ checkAuth = "notStarted"
  /\ LET ms == getMemberstack(publicKey)
     IN IF ms = NULL
        THEN /\ isLoading' = FALSE
             /\ checkAuth' = "skipped"
             /\ UNCHANGED <<memberstack, authListener>>
        ELSE /\ memberstack' = ms
             /\ checkAuth' = "pending"
             /\ authListener' = "subscribed"
             /\ UNCHANGED isLoading
  /\ RenderScheduled
  /\ UNCHANGED <<config, member, call, result, publicKey, lastAuthChange,
                 mounted, pathname, fallbackUrl, accessCheck, rendered, view,
                 effectPending, timers, cleanup>>

\* ms.getCurrentMember() settles and checkAuth resumes after its await
CheckAuthSettles(outcome) ==
  /\ checkAuth = "pending"
  /\ member' = checkAuth_Settled(outcome).member
  /\ isLoading' = checkAuth_Settled(outcome).isLoading
  /\ checkAuth' = outcome.status
  /\ RenderScheduled
  /\ UNCHANGED <<config, call, result, publicKey, memberstack, authListener,
                 lastAuthChange, mounted, pathname, fallbackUrl, accessCheck,
                 rendered, view, effectPending, timers, cleanup>>

\* the SDK delivers an auth change to the subscribed listener:
\* newMember => setMember(newMember)
OnAuthChange(newMember) ==
  /\ authListener = "subscribed"
  /\ member' = newMember
  /\ lastAuthChange' = [delivered |-> TRUE, value |-> newMember]
  /\ RenderScheduled
  /\ UNCHANGED <<config, call, result, publicKey, memberstack, isLoading,
                 checkAuth, authListener, mounted, pathname, fallbackUrl,
                 accessCheck, rendered, view, effectPending, timers, cleanup>>

\* the dashboard layout is entered: a new ClientSideProtection is mounted
ProtectionMount ==
  /\ ~mounted
  /\ mounted' = TRUE
  /\ pathname' = PathA
  /\ accessCheck' = NULL
  /\ rendered' = NotRendered
  /\ view' = "none"
  /\ needsRender' = TRUE
  /\ effectPending' = FALSE
  /\ cleanup' = NoTimer
  /\ UNCHANGED <<config, member, call, result, providerVars, fallbackUrl,
                 timers>>

\* what one render of ClientSideProtection returns
RenderView(loading, check) ==
  IF loading \/ check = NULL THEN "verifying"
  ELSE IF ~check.hasAccess THEN "denied"
  ELSE "children"

\* the dependencies of the effect that differ between renders
EffectDeps == [member |-> member, isLoading |-> isLoading, pathname |-> pathname]

\* React renders and commits ClientSideProtection with the current context
\* and accessCheck state; the effect is scheduled when one of its
\* dependencies differs from the previous render (or on the first render)
ProtectionRender ==
  /\ mounted
  /\ needsRender
  /\ ~effectPending
  /\ view' = RenderView(isLoading, accessCheck)
  /\ rendered' = EffectDeps
  /\ effectPending' = (rendered # EffectDeps)
  /\ needsRender' = FALSE
  /\ UNCHANGED <<config, member, call, result, providerVars, mounted,
                 pathname, fallbackUrl, accessCheck, timers, cleanup>>

\* a navigation to another page of the dashboard commits: usePathname()
\* returns the new path in the render of that commit
Navigate(path) ==
  /\ mounted
  /\ ~effectPending
  /\ path # pathname
  /\ pathname' = path
  /\ view' = RenderView(isLoading, accessCheck)
  /\ rendered' = [EffectDeps EXCEPT !.pathname = path]
  /\ effectPending' = TRUE
  /\ needsRender' = FALSE
  /\ UNCHANGED <<config, member, call, result, providerVars, mounted,
                 fallbackUrl, accessCheck, timers, cleanup>>

\* some render of ClientSideProtection commits
Renders == ProtectionRender \/ \E path \in Pathnames : Navigate(path)

\* clearTimeout(timer) by the cleanup function of the previous effect
ClearTimeout(pending, id) == {timer \in pending : timer.id # id}

\* ClientSideProtection's useEffect: the cleanup of the previous run, then
\* the body with the values of the render that scheduled it
ProtectionEffect ==
  /\ mounted
  /\ effectPending
  /\ effectPending' = FALSE
  /\ LET cleared == ClearTimeout(timers, cleanup)
         access == hasRouteAccess(config, rendered.member, rendered.pathname)
         free == TimerIds \ {timer.id : timer \in cleared}
     IN IF rendered.isLoading
        THEN /\ timers' = cleared
             /\ cleanup' = NoTimer
             /\ UNCHANGED <<accessCheck, needsRender>>
        ELSE /\ accessCheck' = access
             /\ needsRender' = TRUE
             /\ IF ~access.hasAccess /\ fallbackUrl # <<>>
                THEN /\ free # {}
                     /\ timers' = cleared \cup {[id |-> Min(free),
                                                 deps |-> rendered,
                                                 due |-> FALSE]}
                     /\ cleanup' = Min(free)
                ELSE /\ timers' = cleared
                     /\ cleanup' = NoTimer
  /\ UNCHANGED <<config, member, call, result, providerVars, mounted,
                 pathname, fallbackUrl, rendered, view>>

\* the dashboard layout is left: ClientSideProtection unmounts and the
\* cleanup of its last effect runs
LayoutLeft(pending) ==
  /\ mounted' = FALSE
  /\ timers' = ClearTimeout(pending, cleanup)
  /\ cleanup' = NoTimer
  /\ accessCheck' = NULL
  /\ rendered' = NotRendered
  /\ view' = "none"
  /\ needsRender' = FALSE
  /\ effectPending' = FALSE

\* the 3000 ms of the pending timers elapse. A render and the effects it
\* schedules take far less than that, so no render or effect is outstanding
\* when a timer started before them becomes due.
DelayElapses ==
  /\ \E timer \in timers : ~timer.due
  /\ ~needsRender
  /\ ~effectPending
  /\ timers' = {[timer EXCEPT !.due = TRUE] : timer \in timers}
  /\ UNCHANGED <<config, member, call, result, providerVars, mounted,
                 pathname, fallbackUrl, accessCheck, rendered, view,
                 needsRender, effectPending, cleanup>>

\* the browser runs the callback of a timer that is due:
\* router.push(fallbackUrl) navigates to the fallback page, which leaves the
\* layout
RedirectTimerFires(timer) ==
  /\ timer \in timers
  /\ timer.due
  /\ pathname' = fallbackUrl
  /\ IF mounted
     THEN LayoutLeft(timers \ {timer})
     ELSE /\ timers' = timers \ {timer}
          /\ UNCHANGED <<mounted, cleanup, accessCheck, rendered, view,
                         needsRender, effectPending>>
  /\ UNCHANGED <<config, member, call, result, providerVars, fallbackUrl>>

\* the visitor navigates to a page outside the dashboard layout
ProtectionUnmount ==
  /\ mounted
  /\ pathname' = PathRoot
  /\ LayoutLeft(timers)
  /\ UNCHANGED <<config, member, call, result, providerVars, fallbackUrl>>

\* the initial check settles one way or the other
InitialCheckSettles == \E outcome \in CheckAuthOutcomes : CheckAuthSettles(outcome)

\* some pending redirect timer fires
RedirectFires == \E timer \in timers : RedirectTimerFires(timer)

AppNext ==
  \/ ProviderEffect
  \/ InitialCheckSettles
  \/ \E newMember \in SdkMembers : OnAuthChange(newMember)
  \/ ProtectionMount
  \/ ProtectionRender
  \/ \E path \in Pathnames : Navigate(path)
  \/ ProtectionEffect
  \/ DelayElapses
  \/ RedirectFires
  \/ ProtectionUnmount

\* React runs the effect of a mounted component, and the promise of
\* getCurrentMember settles
AppSpec ==
  /\ AppInit
  /\ [][AppNext]_vars
  /\ WF_vars(ProviderEffect)
  /\ WF_vars(InitialCheckSettles)

-----------------------------------------------------------------------------
(* Vocabulary of the claims, stated on sets *)

\* prefix equals path or is a proper prefix of it
IsPrefixOf(prefix, path) ==
  /\ Len(prefix) <= Len(path)
  /\ \A i \in 1..Len(prefix) : prefix[i] = path[i]

\* positions of the protected-route entries that match path
MatchingEntries(cfg, path) ==
  {i \in 1..Len(cfg.protected) : IsPrefixOf(cfg.protected[i].path, path)}

\* the plan ids of the member's active connections
ActivePlanIdSet(m) ==
  {conn.planId : conn \in {c \in Range(ConnectionsOf(m)) : c.active}}

\* the member's active plans that the plan map knows
RecognizedActivePlans(cfg, m) ==
  {cfg.plans[id] : id \in ActivePlanIdSet(m) \cap DOMAIN cfg.plans}

\* direct permissions and the permissions of the recognized active plans
MemberPermissionSet(cfg, m) ==
  IF m = NULL THEN {}
  ELSE (IF Has(m, "permissions") THEN Range(m.permissions) ELSE {})
       \cup UNION {Range(plan.permissions) : plan \in RecognizedActivePlans(cfg, m)}

\* the features of the recognized active plans
MemberFeatureSet(cfg, m) ==
  UNION {Range(plan.features) : plan \in RecognizedActivePlans(cfg, m)}

\* the requirement list of a rule, empty when the field is absent
Required(rule, field) == IF Has(rule, field) THEN rule[field] ELSE <<>>

\* the rule lets unauthenticated visitors in
AllowsUnauthenticated(rule) ==
  Has(rule, "allowUnauthenticated") /\ rule.allowUnauthenticated

\* a gate "any of list" is unmet by the set held
Unmet(list, held) == list # <<>> /\ Range(list) \cap held = {}

IsRouteCall == call.op = "hasRouteAccess"

IsFeatureCall == call.op = "hasFeatureAccess"

IsComponentCall == call.op = "hasComponentAccess"

\* the value the current utility call returned
ReturnValue == result[call.op]

\* the current call is one of the three access checks
IsAccessCall == IsRouteCall \/ IsFeatureCall \/ IsComponentCall

\* the entry that governs the current route call: the first matching one
GoverningRoute == config.protected[Min(MatchingEntries(config, call.path))]

-----------------------------------------------------------------------------
(* Claims *)

\* C1: for every member (null included) and every path that no
\* protected-route entry equals or prefixes, hasRouteAccess returns exactly
\* {hasAccess: true}: no reason, requiredPlans, requiredPermissions or
\* suggestedAction.
C1_UnprotectedPathIsOpen ==
  (IsRouteCall /\ MatchingEntries(config, call.path) = {})
    => /\ result.hasAccess
       /\ DOMAIN result = {"hasAccess"}

\* C1 witness: a null member asks for a path beside a non-empty rule set
C1_Witness ==
  /\ IsRouteCall
  /\ config.protected # <<>>
  /\ MatchingEntries(config, call.path) = {}
  /\ member = NULL
  /\ result = Granted

\* the first unmet gate of a route rule, in the order authentication, plan,
\* permission ("none" when every gate is met)
FirstUnmetRouteGate(cfg, rule, m) ==
  IF ~AllowsUnauthenticated(rule) /\ m = NULL THEN "authentication"
  ELSE IF Unmet(Required(rule, "requiredPlans"), ActivePlanIdSet(m)) THEN "plan"
  ELSE IF Unmet(Required(rule, "requiredPermissions"), MemberPermissionSet(cfg, m))
  THEN "permission"
  ELSE "none"

\* C2: hasRouteAccess evaluates the gates of the matching rule R in the
\* order authentication, plan, permission and reports only the first that
\* fails: "Authentication required", else "Plan upgrade required" with
\* requiredPlans = R.requiredPlans, else "Insufficient permissions" with
\* requiredPermissions = R.requiredPermissions, else {hasAccess: true}; a
\* decision never carries the requirements of two gates.
C2_RouteGateOrder ==
  (IsRouteCall /\ MatchingEntries(config, call.path) # {}) =>
    LET gate == FirstUnmetRouteGate(config, GoverningRoute, member)
    IN /\ gate = "none" => result = Granted
       /\ gate = "authentication" =>
            /\ ~result.hasAccess
            /\ result.reason = "Authentication required"
            /\ ~Has(result, "requiredPlans")
            /\ ~Has(result, "requiredPermissions")
       /\ gate = "plan" =>
            /\ ~result.hasAccess
            /\ result.reason = "Plan upgrade required"
            /\ result.requiredPlans = GoverningRoute.requiredPlans
            /\ ~Has(result, "requiredPermissions")
       /\ gate = "permission" =>
            /\ ~result.hasAccess
            /\ result.reason = "Insufficient permissions"
            /\ result.requiredPermissions = GoverningRoute.requiredPermissions
            /\ ~Has(result, "requiredPlans")

\* C2 witness: plan and permission are both unmet and only the plan is
\* reported (a member without the plan and without the permission)
C2_Witness ==
  /\ IsRouteCall
  /\ MatchingEntries(config, call.path) # {}
  /\ member # NULL
  /\ Unmet(Required(GoverningRoute, "requiredPlans"), ActivePlanIdSet(member))
  /\ Unmet(Required(GoverningRoute, "requiredPermissions"),
           MemberPermissionSet(config, member))
  /\ result.reason = "Plan upgrade required"

\* the governing rule of the current route call has requiredPlans = [] and
\* allowUnauthenticated = false
GovernedByPlanFreeRule ==
  /\ IsRouteCall
  /\ MatchingEntries(config, call.path) # {}
  /\ Has(GoverningRoute, "requiredPlans")
  /\ GoverningRoute.requiredPlans = <<>>
  /\ Has(GoverningRoute, "allowUnauthenticated")
  /\ ~GoverningRoute.allowUnauthenticated

\* C3 as stated: for every protected route whose rule has requiredPlans = []
\* and allowUnauthenticated = false, hasRouteAccess grants access to every
\* non-null member whatever plans the member holds, and denies a null member
\* with reason "Authentication required".
C3_Original ==
  GovernedByPlanFreeRule =>
    IF member = NULL
    THEN ~result.hasAccess /\ result.reason = "Authentication required"
    ELSE result.hasAccess

\* C3 amended: the same, for rules that in addition have no
\* requiredPermissions (absent or empty): every non-null member is granted
\* access whatever plans the member holds, and null is denied with reason
\* "Authentication required".
C3_PlanFreeRuleAdmitsEveryMember ==
  (GovernedByPlanFreeRule /\ Required(GoverningRoute, "requiredPermissions") = <<>>)
    => IF member = NULL
       THEN ~result.hasAccess /\ result.reason = "Authentication required"
       ELSE result.hasAccess

\* C3 witness: a member without any active plan and without permissions is
\* granted access under such a rule
C3_Witness ==
  /\ GovernedByPlanFreeRule
  /\ Required(GoverningRoute, "requiredPermissions") = <<>>
  /\ member # NULL
  /\ ActivePlanIdSet(member) = {}
  /\ MemberPermissionSet(config, member) = {}
  /\ result = Granted

\* C4: when several protected-route entries match the request path, only
\* the entry declared first is evaluated: the decision is the one the rule
\* set makes with that entry as its only protected route, whatever the later
\* matching entries (longer prefixes included) require.
C4_FirstDeclaredEntryGoverns ==
  (IsRouteCall /\ Cardinality(MatchingEntries(config, call.path)) > 1) =>
    result = hasRouteAccess([config EXCEPT !.protected = <<GoverningRoute>>],
                            member, call.path)

\* C4 witness: the first entry is the shorter prefix and admits the member,
\* the later, longer entry alone would turn the member away
C4_Witness ==
  /\ IsRouteCall
  /\ Cardinality(MatchingEntries(config, call.path)) > 1
  /\ Len(config.protected[1].path) < Len(config.protected[2].path)
  /\ result = Granted
  /\ ~hasRouteAccess([config EXCEPT !.protected = <<config.protected[2]>>],
                     member, call.path).hasAccess

\* every plan id of a non-empty list is missing from the plan map
AllUnresolvable(cfg, list) ==
  list # <<>> /\ \A id \in Range(list) : id \notin DOMAIN cfg.plans

\* the current component call names a component that has a rule
HasComponentRule ==
  IsComponentCall /\ call.component \in DOMAIN config.components

\* the rule of the component of the current component call
ComponentRule == config.components[call.component]

\* C5 as stated: if every plan id in a rule's non-empty requiredPlans is
\* absent from the plan map, no member passes the rule's plan gate:
\* hasRouteAccess (route rule) and hasComponentAccess (component rule) never
\* return hasAccess = true under that rule.
C5_Original ==
  /\ (/\ IsRouteCall
      /\ MatchingEntries(config, call.path) # {}
      /\ AllUnresolvable(config, Required(GoverningRoute, "requiredPlans")))
       => ~result.hasAccess
  /\ (/\ HasComponentRule
      /\ AllUnresolvable(config, Required(ComponentRule, "requiredPlans")))
       => ~result.hasAccess

\* newer is older with one more active plan connection
AddsActiveConnection(older, newer) ==
  /\ older # NULL
  /\ newer # NULL
  /\ \E i \in 1..(Len(ConnectionsOf(older)) + 1) :
       \E conn \in {c \in Connections : c.active} :
         newer = WithConnections(older, InsertAt(ConnectionsOf(older), i, conn))

C7_Original ==
  (IsFeatureCall /\ call.feature \notin DOMAIN config.features)
    => result = [hasAccess |-> FALSE,
                 reason |-> "Unknown feature: " \o call.feature]

\* C8: for every feature in the feature map with plan list L:
\* hasFeatureAccess(null, f) is {hasAccess: false, reason: "Authentication
\* required", requiredPlans: L}; a non-null member is granted access iff one
\* of the member's active plan ids is in L, and is otherwise answered
\* {hasAccess: false, reason: "Plan upgrade required", requiredPlans: L}.
C8_FeatureAccessByPlanList ==
  (IsFeatureCall /\ call.feature \in DOMAIN config.features) =>
    LET L == config.features[call.feature]
    IN IF member = NULL
       THEN /\ ~result.hasAccess
            /\ result.reason = "Authentication required"
            /\ result.requiredPlans = L
       ELSE IF ActivePlanIdSet(member) \cap Range(L) # {}
       THEN result.hasAccess
       ELSE /\ ~result.hasAccess
            /\ result.reason = "Plan upgrade required"
            /\ result.requiredPlans = L

\* C8 witness: a member holding one plan of a list of several is granted
\* the feature
C8_Witness ==
  /\ IsFeatureCall
  /\ call.feature \in DOMAIN config.features
  /\ member # NULL
  /\ Len(config.features[call.feature]) > 1
  /\ Cardinality(ActivePlanIdSet(member) \cap Range(config.features[call.feature])) = 1
  /\ result = Granted

\* C9 as stated: for every component name that has no content-gating rule,
\* hasComponentAccess returns {hasAccess: true} for every member, null
\* included.
C9_Original ==
  (IsComponentCall /\ call.component \notin DOMAIN config.components)
    => result = Granted

\* the first unmet gate of a component rule, in the order authentication,
\* plan, permission, feature ("none" when every gate is met)
FirstUnmetComponentGate(cfg, rule, m) ==
  IF m = NULL THEN "authentication"
  ELSE IF Unmet(Required(rule, "requiredPlans"), ActivePlanIdSet(m)) THEN "plan"
  ELSE IF Unmet(Required(rule, "requiredPermissions"), MemberPermissionSet(cfg, m))
  THEN "permission"
  ELSE IF Unmet(Required(rule, "requiredFeatures"), MemberFeatureSet(cfg, m))
  THEN "feature"
  ELSE "none"

\* the reason hasComponentAccess gives for each gate
ComponentGateReason(gate) ==
  CASE gate = "authentication" -> "Authentication required"
    [] gate = "plan" -> "Plan upgrade required"
    [] gate = "permission" -> "Insufficient permissions"
    [] gate = "feature" -> "Feature not available in your plan"

C11_Original ==
  (/\ IsRouteCall
   /\ MatchingEntries(config, call.path) # {}
   /\ Required(GoverningRoute, "requiredFeatures") # <<>>
   /\ result.hasAccess)
    => Range(GoverningRoute.requiredFeatures)
         \cap MemberFeatureSet(config, member) # {}

WithoutInactive(m) ==
  IF m = NULL \/ ~Has(m, "planConnections") THEN m
  ELSE LET IsActive(conn) == conn.active
       IN WithConnections(m, SelectSeq(m.planConnections, IsActive))

\* C13: inactive plan connections are inert: members that differ only in
\* their connections with active = false have the same activePlanIds,
\* activePlans, primaryPlan, memberFeatures and memberPermissions and get
\* the same hasRouteAccess / hasFeatureAccess / hasComponentAccess
\* decisions (every call answers as it does for the member without its
\* inactive connections).
C13_InactiveConnectionsAreInert ==
  call # NoCall => result = Evaluate(config, WithoutInactive(member), call)

\* C13 witness: a member with an inactive connection to the top plan and an
\* active connection to another plan is asked for the active plans
C13_Witness ==
  /\ call.op = "getActivePlans"
  /\ member # NULL
  /\ \E i, j \in 1..Len(ConnectionsOf(member)) :
       /\ ~ConnectionsOf(member)[i].active
       /\ ConnectionsOf(member)[i].planId = "pln_enterprise"
       /\ ConnectionsOf(member)[j].active
       /\ ConnectionsOf(member)[j].planId = "pln_free"
  /\ Len(ReturnValue) = 1
  /\ ReturnValue[1].id = "pln_free"

\* the active connections of the member whose plan id is in the plan map,
\* in connection order
RecognizedActiveConnections(cfg, m) ==
  LET Recognized(conn) == conn.active /\ conn.planId \in DOMAIN cfg.plans
  IN SelectSeq(ConnectionsOf(m), Recognized)

C17_Original ==
  (/\ call.op = "canUpgradeToPlan"
   /\ \/ call.targetPlanId \notin DOMAIN config.plans
      \/ member # NULL /\ RecognizedActivePlans(config, member) = {})
    => ReturnValue = FALSE

\* the highest priority among a non-empty set of plans
TopPriority(plans) ==
  CHOOSE p \in {plan.priority : plan \in plans} :
    \A plan \in plans : p >= plan.priority

C19_Original ==
  call.op = "getRecommendedPlanForFeature" =>
    LET f == call.feature
        listed == IF f \in DOMAIN config.features
                  THEN config.features[f] ELSE <<>>
        Resolves(planId) == planId \in DOMAIN config.plans
        resolved == SelectSeq(listed, Resolves)
        PlanOf(i) == config.plans[resolved[i]]
        lowest == {i \in 1..Len(resolved) :
                     \A j \in 1..Len(resolved) :
                       PlanOf(i).priority <= PlanOf(j).priority}
    IN IF resolved = <<>> THEN result = Returned(call.op, NULL)
       ELSE result = Returned(call.op, PlanOf(Min(lowest)))

\* an error of the list mentions the plan id
MentionsPlan(error, planId) ==
  Has(error, "planId") /\ error.planId = planId

\* C20 as stated: validateRuleSet returns an error for every plan id that
\* appears in the requiredPlans of a protected route or of a content-gating
\* rule and is absent from the plan map; for a route, the error holds the
\* route's path and the missing plan id.
C20_Original ==
  call.op = "validateAuthConfig" =>
    LET errors == Range(ReturnValue)
    IN /\ \A i \in 1..Len(config.protected) :
            \A planId \in Range(Required(config.protected[i], "requiredPlans"))
                            \ DOMAIN config.plans :
              \E error \in errors :
                /\ MentionsPlan(error, planId)
                /\ error.path = config.protected[i].path
       /\ \A name \in DOMAIN config.components :
            \A planId \in Range(Required(config.components[name], "requiredPlans"))
                            \ DOMAIN config.plans :
              \E error \in errors : MentionsPlan(error, planId)

\* an error of the list mentions the feature name
MentionsFeature(error, feature) ==
  Has(error, "feature") /\ error.feature = feature

\* C21 as stated: validateRuleSet returns an error for every feature name
\* that appears in a requiredFeatures list of the rule set (of a protected
\* route or of a content-gating rule) and has no entry in the feature map.
C21_Original ==
  call.op = "validateAuthConfig" =>
    LET errors == Range(ReturnValue)
    IN /\ \A i \in 1..Len(config.protected) :
            \A feature \in Range(Required(config.protected[i], "requiredFeatures"))
                             \ DOMAIN config.features :
              \E error \in errors : MentionsFeature(error, feature)
       /\ \A name \in DOMAIN config.components :
            \A feature \in Range(Required(config.components[name],
                                          "requiredFeatures"))
                             \ DOMAIN config.features :
              \E error \in errors : MentionsFeature(error, feature)

\* C22 as stated: whenever some path is both protected and public
\* (isProtectedRoute and isPublicRoute both true), validateRuleSet returns
\* at least one error; the shipped rule set validates with zero errors and
\* has no such path.
C22_Original ==
  call.op = "validateAuthConfig" =>
    /\ (\E path \in Paths :
          isProtectedRoute(config, path) /\ isPublicRoute(config, path))
         => ReturnValue # <<>>
    /\ config = ShippedConfig =>
         /\ ReturnValue = <<>>
         /\ \A path \in Paths :
              ~(isProtectedRoute(config, path) /\ isPublicRoute(config, path))

\* a record without one of its fields
Without(record, field) ==
  [f \in (DOMAIN record) \ {field} |-> record[f]]

\* the rule writes "no plan restriction" as requiredPlans = []
HasEmptyPlans(rule) ==
  Has(rule, "requiredPlans") /\ rule.requiredPlans = <<>>

\* the decision of the current route call when entry i of the protected
\* routes leaves requiredPlans out
RouteDecisionWithPlansAbsent(i) ==
  hasRouteAccess(
    [config EXCEPT !.protected[i] = Without(@, "requiredPlans")],
    member, call.path)

\* the decision of the current component call when the rule of name leaves
\* requiredPlans out
ComponentDecisionWithPlansAbsent(name) ==
  hasComponentAccess(
    [config EXCEPT !.components[name] = Without(@, "requiredPlans")],
    member, call.component)

\* C23 as stated: for route rules and component rules alike, requiredPlans
\* = [] and an absent requiredPlans are equivalent: for every member and
\* every pair of rule sets that differ only in writing one rule's
\* requiredPlans as [] or leaving it out, hasRouteAccess and
\* hasComponentAccess return the same decision.
C23_Original ==
  /\ IsRouteCall =>
       \A i \in 1..Len(config.protected) :
         HasEmptyPlans(config.protected[i])
           => result = RouteDecisionWithPlansAbsent(i)
  /\ IsComponentCall =>
       \A name \in DOMAIN config.components :
         HasEmptyPlans(config.components[name])
           => result = ComponentDecisionWithPlansAbsent(name)

\* C23 amended: under such a pair of rule sets the plan gate is skipped in
\* both; hasRouteAccess returns the same decision; hasComponentAccess
\* returns the same decision for every non-null member, and for a null
\* member decisions that agree in everything but the echoed requiredPlans
\* ([] for the empty list, none for the absent field).
C23_EmptyAndAbsentPlansAgree ==
  /\ IsRouteCall =>
       \A i \in 1..Len(config.protected) :
         HasEmptyPlans(config.protected[i])
           => result = RouteDecisionWithPlansAbsent(i)
  /\ IsComponentCall =>
       \A name \in DOMAIN config.components :
         HasEmptyPlans(config.components[name]) =>
           /\ member # NULL => result = ComponentDecisionWithPlansAbsent(name)
           /\ Without(result, "requiredPlans")
                = Without(ComponentDecisionWithPlansAbsent(name), "requiredPlans")
           /\ (name = call.component /\ Has(result, "reason"))
                => result.reason # "Plan upgrade required"

\* C23 witness: a member without any plan is granted a component whose rule
\* has requiredPlans = [] and no other requirement
C23_Witness ==
  /\ HasComponentRule
  /\ HasEmptyPlans(ComponentRule)
  /\ Required(ComponentRule, "requiredPermissions") = <<>>
  /\ Required(ComponentRule, "requiredFeatures") = <<>>
  /\ member # NULL
  /\ ActivePlanIdSet(member) = {}
  /\ result = Granted

\* C25: for every component name that has a content-gating rule,
\* hasComponentAccess denies a null member with reason "Authentication
\* required", echoing the rule's requiredPlans, even when the rule has no
\* requiredPlans, requiredPermissions or requiredFeatures: component rules
\* have no allowUnauthenticated escape.
C25_ComponentsRequireAuthentication ==
  (HasComponentRule /\ member = NULL) =>
    /\ ~result.hasAccess
    /\ result.reason = "Authentication required"
    /\ IF Has(ComponentRule, "requiredPlans")
       THEN /\ Has(result, "requiredPlans")
            /\ result.requiredPlans = ComponentRule.requiredPlans
       ELSE ~Has(result, "requiredPlans")

\* C25 witness: a null member is turned away by a rule without any
\* requirement
C25_Witness ==
  /\ HasComponentRule
  /\ member = NULL
  /\ ~Has(ComponentRule, "requiredPlans")
  /\ ~Has(ComponentRule, "requiredPermissions")
  /\ ~Has(ComponentRule, "requiredFeatures")
  /\ ~result.hasAccess
  /\ result.reason = "Authentication required"

\* C26 as stated: in a rule set produced by generateAuthConfigFile from one
\* or more active plans, "/dashboard" is open to all generated plans: every
\* member with an active connection to one of the generated plan ids is
\* granted access by hasRouteAccess(member, "/dashboard").
C26_Original ==
  (/\ IsRouteCall
   /\ config \in GeneratedConfigs
   /\ call.path = PathA
   /\ ActivePlanIdSet(member) \cap DOMAIN config.plans # {})
    => result.hasAccess

-----------------------------------------------------------------------------
\* C24: with the shipped rule set, a request that is not skipped as a static
\* or API path, whose pathname matches a protected route that does not allow
\* unauthenticated visitors, and that lacks the _ms-sid or the _ms-mid
\* cookie, is answered with a redirect to the 'unauthenticated' target that
\* carries redirect=<pathname> and a reason; it never proceeds to the page.
C24_Original ==
  (/\ call.op = "middleware"
   /\ config = ShippedConfig
   /\ ~SkipsMiddleware(call.request.pathname)
   /\ LET found == FindProtectedRoute(config, call.request.pathname)
      IN /\ found # 0
         /\ ~AllowsUnauthenticated(config.protected[found])
   /\ \/ ~Has(call.request.cookies, "_ms-sid")
      \/ ~Has(call.request.cookies, "_ms-mid"))
  => /\ result.kind = "redirect"
     /\ result.to = config.redirects.unauthenticated
     /\ result.redirect = call.request.pathname
     /\ Has(result, "reason")

-----------------------------------------------------------------------------
\* C27: in every render of ClientSideProtection, children are shown only if
\* isLoading is false and hasRouteAccess(member, pathname), for the member
\* and pathname current at that render, grants access; while loading or
\* before the first check the render shows 'Verifying access', and when the
\* check denies it shows the access-denied screen.
C27_Original ==
  [][Renders =>
       /\ view' = "children" =>
            /\ ~isLoading
            /\ hasRouteAccess(config, member, pathname').hasAccess
       /\ (isLoading \/ accessCheck = NULL) => view' = "verifying"
       /\ (~isLoading /\ accessCheck # NULL /\ ~accessCheck.hasAccess) =>
            view' = "denied"]_vars

-----------------------------------------------------------------------------
\* C28: once the initial getCurrentMember call has settled and at least one
\* auth-change event has been delivered, the provider's member is the value
\* of the most recent auth-change event: the result or failure of the
\* initial check never replaces a value an auth-change event delivered.
C28_Original ==
  (checkAuth \in {"resolved", "rejected"} /\ lastAuthChange.delivered)
  => member = lastAuthChange.value

-----------------------------------------------------------------------------
\* C29: a redirect timer fires (router.push(fallbackUrl)) only while the
\* component is mounted and member, pathname and loading state are the ones
\* the timer was started for, so a member who has gained access in the
\* meantime is never redirected; and at most one redirect timer is pending
\* at any time.
C29_Original ==
  /\ [][\A timer \in timers :
          RedirectTimerFires(timer) =>
            /\ mounted
            /\ timer.deps = EffectDeps
            /\ ~hasRouteAccess(config, member, pathname).hasAccess]_vars
  /\ [](Cardinality(timers) <= 1)

-----------------------------------------------------------------------------
\* C30: after MemberstackProvider has mounted, isLoading eventually becomes
\* false, whether the SDK cannot be initialised, getCurrentMember resolves
\* or it rejects (member is then null); once false it is never true again.
C30_LoadingEnds ==
  /\ <>(isLoading = FALSE)
  /\ [][isLoading = FALSE => isLoading' = FALSE]_vars
  /\ [][(checkAuth = "pending" /\ checkAuth' = "rejected") =>
          (member' = NULL /\ isLoading' = FALSE)]_vars

\* the initial check was rejected: loading has ended with nobody logged in
\* and a mounted ClientSideProtection has left 'Verifying access'
C30_Witness ==
  /\ checkAuth = "rejected"
  /\ isLoading = FALSE
  /\ member = NULL
  /\ mounted
  /\ view = "denied"

====
